---- MODULE Spec2Model ----
(***************************************************************************)
(* A model of @vezine/react-ui-plugins: the plugin helpers of              *)
(* src/utils/uiPlugin.utils.ts and the usePluginRenderer hook, in the      *)
(* three variants the repository holds:                                    *)
(*   "inline"      index.tsx 142-176, refresh written inside the effect,   *)
(*                 helpers of uiPlugin.utils.ts 1-17;                      *)
(*   "data"        index.tsx 50-82, refresh by initializePlugins storing   *)
(*                 transformData() results (helpers 1-34 of the middle     *)
(*                 revision of uiPlugin.utils.ts);                         *)
(*   "descriptor"  the hook of index.spec.tsx 139-177, refresh by          *)
(*                 initializePlugins storing descriptors (uiPlugin.utils.ts*)
(*                 19-57), transformData called at render time.            *)
(* The host framework is modelled by what the hook uses of it: a state     *)
(* cell (useState) whose value a render pass captures, and an effect       *)
(* (useEffect) run after a render pass on mount and when deps changed.     *)
(***************************************************************************)
EXTENDS Integers, Sequences, FiniteSets, TLC

VARIABLES
    variant,     \* which revision of the hook and helpers the session runs
    pool,        \* the caller's module-level plugin array
    phase,       \* "setup" | "rendering" | "committed" | "failed"
    plugins,     \* the plugins argument of the current evaluation
    deps,        \* the deps argument of the current evaluation
    prevDeps,    \* the deps the effect hook holds from the last committed evaluation
    mounted,     \* TRUE once the first evaluation has been committed
    pluginData,  \* the useState cell holding the derived-data mapping
    ext,         \* caller state outside the hook that a transformData may read
    lastOp       \* what the last operation did and returned

vars == <<variant, pool, phase, plugins, deps, prevDeps, mounted, pluginData, ext,
          lastOp>>

----------------------------------------------------------------------------
(* Bounds *)

MaxPlugins == 2

----------------------------------------------------------------------------
(* JavaScript values *)

JSUndefined == [kind |-> "undefined", props |-> <<>>]
JSZero == [kind |-> "number0", props |-> <<>>]
JSObject(props) == [kind |-> "object", props |-> props]
EmptyRecord == JSObject(<<>>)
\* A member every object literal inherits from Object.prototype, a function.
JSInherited == [kind |-> "function", props |-> <<>>]

\* The names Object.prototype defines, of which one is modelled.
InheritedKeys == {"constructor"}

\* The modelled values are undefined, the number 0, plain objects and inherited
\* functions: the first two are falsy, objects and functions are truthy.
FalsyKinds == {"undefined", "number0"}
Truthy(v) == v.kind \notin FalsyKinds

\* a ?? b, which keeps every value but undefined and null.
OrElseNullish(a, b) == IF a.kind # "undefined" THEN a ELSE b

\* a alone, the fallback left out.
OrElseFirst(a, b) == a

\* a || b
OrElse(a, b) == IF Truthy(a) THEN a ELSE b

\* The properties {...v} contributes: an object's own properties, nothing for
\* undefined and 0.
Spread(v) == IF v.kind = "object" THEN v.props ELSE <<>>

\* Object.values(m)[0]: an entry whatever the key
LookupAny(m, k) ==
    IF DOMAIN m = {} THEN JSUndefined ELSE m[CHOOSE x \in DOMAIN m : TRUE]

\* m[k] of an object literal used as a dictionary: an own property, else the
\* member inherited from Object.prototype, else undefined.
Lookup(m, k) ==
    IF k \in DOMAIN m
    THEN m[k]
    ELSE IF k \in InheritedKeys THEN JSInherited ELSE JSUndefined

\* if (!(k in m)) m[k] = v: the first assignment to a key stays
PutIfAbsent(m, k, v) ==
    IF k \in DOMAIN m THEN m ELSE [x \in DOMAIN m \cup {k} |-> IF x = k THEN v ELSE m[x]]

\* m[k] = v
Put(m, k, v) == [x \in (DOMAIN m) \cup {k} |-> IF x = k THEN v ELSE m[x]]

----------------------------------------------------------------------------
(* Plugin descriptors *)

NoName == <<>>
Named(s) == <<s>>

NoTransform == [kind |-> "absent", value |-> JSUndefined]
Returns(v) == [kind |-> "returns", value |-> v]
Throws == [kind |-> "throws", value |-> JSUndefined]
\* () => ({v: ext}): a transformData that reads state outside the hook
ReadsExt == [kind |-> "reads", value |-> JSUndefined]

ExtValues == {"0", "1"}

\* typeof plugin.transformData === "function"
IsFunction(td) == td.kind \in {"returns", "throws", "reads"}

\* plugin.transformData() of a transformData that returns
TransformResult(td) ==
    IF td.kind = "reads" THEN JSObject([v |-> ext]) ELSE td.value

\* The descriptors callers write: a named plugin with data, an unnamed one, a
\* second plugin named "A" without transformData, one named like a synthesized
\* identity whose data is falsy, one with an empty name whose transformData
\* throws, and one whose data follows outside state and whose render reads
\* data.v.length, a TypeError on data without v; and one named like a member
\* of Object.prototype.
PluginA ==
    [name |-> Named("A"),
     transformData |-> Returns(JSObject([title |-> "Y", body |-> "Z"])),
     render |-> "renderA"]

PluginUnnamed ==
    [name |-> NoName,
     transformData |-> Returns(JSObject([v |-> "2"])),
     render |-> "renderB"]

PluginNoData ==
    [name |-> Named("A"), transformData |-> NoTransform, render |-> "renderC"]

PluginSynth ==
    [name |-> Named("ui-plugin-1"),
     transformData |-> Returns(JSZero),
     render |-> "renderD"]

PluginThrows ==
    [name |-> Named(""), transformData |-> Throws, render |-> "renderE"]

PluginLive ==
    [name |-> Named("B"), transformData |-> ReadsExt, render |-> "renderStrict"]

PluginProto ==
    [name |-> Named("constructor"),
     transformData |-> Returns(JSObject([v |-> "3"])),
     render |-> "renderF"]

PluginUniverse ==
    {PluginA, PluginUnnamed, PluginNoData, PluginSynth, PluginThrows, PluginLive,
     PluginProto}

\* The descriptors callers hand to createUIPlugin.
FactoryInputs == {PluginA, PluginUnnamed}

Variants == {"inline", "data", "descriptor"}

\* deps is left at its default [] or holds one value.
DepValues == {1, 2}
DepsSeqs == {<<>>} \cup {<<v>> : v \in DepValues}

OverrideProps == {JSUndefined, JSObject([title |-> "X"])}

----------------------------------------------------------------------------
(* uiPlugin.utils.ts *)

PLUGIN_PREFIX == "ui-plugin"

\* "ui-plugin-<index + 1>"
getPluginPrefixOneBased(index) == PLUGIN_PREFIX \o "-" \o ToString(index + 1)

getPluginPrefix(index) == PLUGIN_PREFIX \o "-" \o ToString(index)

\* plugin?.name ?? getPluginPrefix(index), which keeps an empty name.
getPluginNameNullish(plugin, index) ==
    IF plugin.name # NoName THEN plugin.name[1] ELSE getPluginPrefix(index)

\* plugin?.name || getPluginPrefix(index)
NameOrPrefix(plugin, index) ==
    IF plugin.name # NoName /\ plugin.name[1] # ""
    THEN plugin.name[1]
    ELSE getPluginPrefix(index)

getPluginName(plugin, index) == NameOrPrefix(plugin, index)

\* The first revisions destructure only transformData and render.
createUIPluginNoName(d) ==
    [name |-> NoName, transformData |-> d.transformData, render |-> d.render]

createUIPluginWithName(d) ==
    [name |-> d.name, transformData |-> d.transformData, render |-> d.render]

createUIPlugin(v, d) ==
    IF v = "descriptor" THEN createUIPluginWithName(d) ELSE createUIPluginNoName(d)

\* initializePlugins as long as it stored each plugin's data: the forEach body
\* from position i on, with the local object `data` and the transformData
\* calls made so far (0-based indices).  A throwing transformData ends the loop.
RECURSIVE StoreDataFrom(_, _, _, _)
StoreDataFrom(ps, i, data, calls) ==
    IF i > Len(ps)
    THEN [threw |-> FALSE, data |-> data, tdCalls |-> calls]
    ELSE LET plugin == ps[i]
             index == i - 1
         IN  IF ~IsFunction(plugin.transformData)
             THEN StoreDataFrom(ps, i + 1, data, calls)
             ELSE IF plugin.transformData.kind = "throws"
             THEN [threw |-> TRUE, data |-> data, tdCalls |-> Append(calls, index)]
             ELSE StoreDataFrom(ps, i + 1,
                                Put(data, NameOrPrefix(plugin, index),
                                    TransformResult(plugin.transformData)),
                                Append(calls, index))

initializePluginsData(ps) == StoreDataFrom(ps, 1, <<>>, <<>>)

\* initializePlugins of the last revision: data[pluginName] = plugin.
RECURSIVE StoreDescriptorsFrom(_, _, _)
StoreDescriptorsFrom(ps, i, data) ==
    IF i > Len(ps)
    THEN [threw |-> FALSE, data |-> data, tdCalls |-> <<>>]
    ELSE LET plugin == ps[i]
             index == i - 1
         IN  IF ~IsFunction(plugin.transformData)
             THEN StoreDescriptorsFrom(ps, i + 1, data)
             ELSE StoreDescriptorsFrom(ps, i + 1,
                                       Put(data, getPluginName(plugin, index), plugin))

initializePluginsDescriptors(ps) == StoreDescriptorsFrom(ps, 1, <<>>)

----------------------------------------------------------------------------
(* usePluginRenderer *)

\* The effect body of the inline hook: the same loop, written in place.
inlineRefresh(ps) == StoreDataFrom(ps, 1, <<>>, <<>>)

\* The refresh the effect of each variant runs.
Refresh(v, ps) ==
    CASE v = "inline" -> inlineRefresh(ps)
      [] v = "data" -> initializePluginsData(ps)
      [] v = "descriptor" -> initializePluginsDescriptors(ps)

\* Object.is on the modelled dependency values.
ObjectIs(a, b) == a = b

Min(a, b) == IF a < b THEN a ELSE b

\* deps compared as one value: the array literal of each evaluation is a new one
areHookInputsEqualByReference(nextDeps, prev) == FALSE

\* A comparison that takes an empty dependency array for a changed one.
areHookInputsEqualNonEmpty(nextDeps, prev) ==
    /\ Len(nextDeps) > 0
    /\ \A i \in 1..Min(Len(nextDeps), Len(prev)) : ObjectIs(nextDeps[i], prev[i])

\* The comparison useEffect makes between the deps of two evaluations.
areHookInputsEqual(nextDeps, prev) ==
    \A i \in 1..Min(Len(nextDeps), Len(prev)) : ObjectIs(nextDeps[i], prev[i])

\* useEffect without a dependency array: due after every render pass.
EffectDueAlways == TRUE

\* useEffect(..., []): due on mount only, whatever deps is.
EffectDueOnMount == ~mounted

\* useEffect(..., deps): the effect is due on mount and when deps changed.
EffectDue == ~mounted \/ ~areHookInputsEqual(deps, prevDeps)

\* {...props, ...pluginData}, the spreads in the other order.
MergePropsDerivedWins(derived, props) ==
    LET a == Spread(derived)
        b == Spread(props)
    IN  JSObject([k \in (DOMAIN a) \cup (DOMAIN b) |->
                    IF k \in DOMAIN a THEN a[k] ELSE b[k]])

\* {...pluginData, ...props}
MergeProps(derived, props) ==
    LET a == Spread(derived)
        b == Spread(props)
    IN  JSObject([k \in (DOMAIN a) \cup (DOMAIN b) |->
                    IF k \in DOMAIN b THEN b[k] ELSE a[k]])

\* plugin.render(data): the element names the render function and its argument.
Render(plugin, data) == [render |-> plugin.render, data |-> data]

\* A render that reads nothing of its data never throws.
RenderThrowsNever(plugin, data) == FALSE

\* Whether plugin.render(data) throws: the strict render does on data without v.
RenderThrows(plugin, data) ==
    plugin.render = "renderStrict" /\ "v" \notin DOMAIN Spread(data)

\* plugin.render(pluginData[ident] || {})
RenderStored(plugin, ident, pd) ==
    LET stored == Lookup(pd, ident)
        arg == OrElse(stored, EmptyRecord)
    IN  [threw |-> RenderThrows(plugin, arg), ident |-> ident, derived |-> stored,
         called |-> FALSE, invoked |-> TRUE, data |-> arg, el |-> Render(plugin, arg)]

\* renderPluginData of the data hook.
renderPluginDataStored(plugin, index, pd) ==
    RenderStored(plugin, getPluginName(plugin, index), pd)

\* The render expression of the inline hook.
renderInline(plugin, index, pageData) ==
    RenderStored(plugin, NameOrPrefix(plugin, index), pageData)

\* renderPluginData of the descriptor hook.
renderPluginDataDescriptor(plugin, index, cache, props) ==
    LET pluginName == getPluginName(plugin, index)
        cached == pluginName # "" /\ pluginName \in DOMAIN cache
        pluginObj == IF pluginName = "" THEN EmptyRecord
                                       ELSE Lookup(cache, pluginName)
        \* {}.transformData(), a missing transformData and the transformData of
        \* an inherited member are calls of undefined: TypeErrors
        typeError == pluginName = ""
                     \/ (cached /\ ~IsFunction(cache[pluginName].transformData))
                     \/ (~cached /\ pluginObj # JSUndefined)
        calls == cached /\ IsFunction(cache[pluginName].transformData)
        tdThrew == typeError
                   \/ (calls /\ cache[pluginName].transformData.kind = "throws")
        derived == IF calls /\ ~tdThrew
                   THEN TransformResult(cache[pluginName].transformData)
                   ELSE JSUndefined
        pluginProps == MergeProps(derived, props)
    IN  [threw |-> tdThrew \/ RenderThrows(plugin, pluginProps),
         ident |-> pluginName, derived |-> derived, called |-> calls,
         invoked |-> ~tdThrew, data |-> pluginProps,
         el |-> Render(plugin, pluginProps)]

renderPluginData(v, plugin, index, pd, props) ==
    CASE v = "inline" -> renderInline(plugin, index, pd)
      [] v = "data" -> renderPluginDataStored(plugin, index, pd)
      [] v = "descriptor" -> renderPluginDataDescriptor(plugin, index, pd, props)

\* plugins.map(...) from position i on: the fragments built so far and the
\* transformData calls made so far; a throw ends the call without a result.
\* `passed` lists the data render was invoked with, the throwing call included.
RECURSIVE RenderFrom(_, _, _, _, _, _, _)
RenderFrom(v, ps, pd, props, i, frags, calls) ==
    IF i > Len(ps)
    THEN [threw |-> FALSE, frags |-> frags, tdCalls |-> calls,
          passed |-> [k \in 1..Len(frags) |-> frags[k].data]]
    ELSE LET index == i - 1
             r == renderPluginData(v, ps[i], index, pd, props)
             calls2 == IF r.called THEN Append(calls, index) ELSE calls
             before == [k \in 1..Len(frags) |-> frags[k].data]
         IN  IF r.threw
             THEN [threw |-> TRUE, frags |-> <<>>, tdCalls |-> calls2,
                   passed |-> IF r.invoked THEN Append(before, r.data) ELSE before]
             ELSE RenderFrom(v, ps, pd, props, i + 1,
                             Append(frags, [key |-> getPluginPrefix(index),
                                            ident |-> r.ident,
                                            derived |-> r.derived,
                                            data |-> r.data,
                                            el |-> r.el]),
                             calls2)

\* plugins.filter(p => p.transformData).map(...), which skips plugins without data.
renderPluginsWithDataOnly(v, ps, pd, props) ==
    RenderFrom(v, SelectSeq(ps, LAMBDA p : IsFunction(p.transformData)), pd, props,
               1, <<>>, <<>>)

renderPlugins(v, ps, pd, props) == RenderFrom(v, ps, pd, props, 1, <<>>, <<>>)

\* A setPluginData in a finally block, which publishes what the loop had built.
setPluginDataPartial(old, r) == r.data

\* () => renderPlugins(): the props are dropped
RenderPluginsWithoutProps(v, ps, pd, props) == renderPlugins(v, ps, pd, JSUndefined)

\* const RenderPlugins = (props) => renderPlugins(props), of the descriptor hook
RenderPluginsAccessor(v, ps, pd, props) == renderPlugins(v, ps, pd, props)

\* setPluginData(prev => ({...prev, ...initializePlugins(plugins)}))
setPluginDataMerge(old, r) ==
    IF r.threw
    THEN old
    ELSE [k \in (DOMAIN old) \cup (DOMAIN r.data) |->
             IF k \in DOMAIN r.data THEN r.data[k] ELSE old[k]]

\* setPluginData(initializePlugins(plugins)): a throw skips the call.
setPluginData(old, r) == IF r.threw THEN old ELSE r.data

----------------------------------------------------------------------------
(* The session *)

\* plugins.filter(...): the plugins of the pool at the kept positions, in order.
RECURSIVE FilterFrom(_, _, _)
FilterFrom(ps, keep, i) ==
    IF i > Len(ps)
    THEN <<>>
    ELSE (IF i \in keep THEN <<ps[i]>> ELSE <<>>) \o FilterFrom(ps, keep, i + 1)

NoOp ==
    [op |-> "init", arg |-> <<>>, result |-> <<>>, refresh |-> "none",
     first |-> FALSE, dropped |-> {}, tdCalls |-> <<>>, threw |-> FALSE,
     props |-> JSUndefined, frags |-> <<>>, passed |-> <<>>]

Init ==
    /\ variant \in Variants
    /\ pool = <<>>
    /\ phase = "setup"
    /\ plugins = <<>>
    /\ deps = <<>>
    /\ prevDeps = <<>>
    /\ mounted = FALSE
    /\ pluginData = <<>>
    /\ ext = "0"
    /\ lastOp = NoOp

\* The pool holds each descriptor once.
Fresh(d) == \A i \in 1..Len(pool) : pool[i] # d

\* The caller writes a descriptor as an object literal.
DefinePlugin(d) ==
    /\ phase = "setup"
    /\ Len(pool) < MaxPlugins
    /\ Fresh(d)
    /\ pool' = Append(pool, d)
    /\ lastOp' = [NoOp EXCEPT !.op = "literal", !.arg = d, !.result = d]
    /\ UNCHANGED <<variant, phase, plugins, deps, prevDeps, mounted, pluginData, ext>>

\* The caller builds a descriptor with createUIPlugin.
CreatePlugin(d) ==
    /\ phase = "setup"
    /\ Len(pool) < MaxPlugins
    /\ LET built == createUIPlugin(variant, d)
       IN  /\ Fresh(built)
           /\ pool' = Append(pool, built)
           /\ lastOp' = [NoOp EXCEPT !.op = "createUIPlugin", !.arg = d,
                                     !.result = built]
    /\ UNCHANGED <<variant, phase, plugins, deps, prevDeps, mounted, pluginData, ext>>

\* The component function runs: usePluginRenderer(pool.filter(...), d).  useState
\* hands the closures the mapping of the cell, and the effect hook still holds the
\* deps of the last committed evaluation.  The host requires deps to keep its
\* length between renders.
Evaluate(keep, d) ==
    /\ phase \in {"setup", "committed"}
    /\ mounted => Len(d) = Len(deps)
    /\ plugins' = FilterFrom(pool, keep, 1)
    /\ deps' = d
    /\ phase' = "rendering"
    /\ lastOp' = [NoOp EXCEPT !.op = "usePluginRenderer"]
    /\ UNCHANGED <<variant, pool, prevDeps, mounted, pluginData, ext>>

\* The host commits the render pass and runs the effect when it is due:
\* setPluginData(initializePlugins(plugins)).  A throw leaves the cell alone and
\* reaches the host.
Commit ==
    /\ phase = "rendering"
    /\ mounted' = TRUE
    /\ prevDeps' = deps
    /\ IF EffectDue
       THEN LET r == Refresh(variant, plugins)
            IN  /\ pluginData' = setPluginData(pluginData, r)
                /\ phase' = IF r.threw THEN "failed" ELSE "committed"
                /\ lastOp' = [NoOp EXCEPT !.op = "effect",
                                          !.refresh = IF r.threw THEN "threw" ELSE "done",
                                          !.first = ~mounted,
                                          !.dropped = (DOMAIN pluginData)
                                                          \ (DOMAIN pluginData'),
                                          !.tdCalls = r.tdCalls,
                                          !.threw = r.threw]
       ELSE /\ pluginData' = pluginData
            /\ phase' = "committed"
            /\ lastOp' = [NoOp EXCEPT !.op = "effect"]
    /\ UNCHANGED <<variant, pool, plugins, deps, ext>>

\* The props a caller can hand renderPlugins: only the descriptor hook's
\* renderPlugins has a parameter.
PropsOf(v) == IF v = "descriptor" THEN OverrideProps ELSE {JSUndefined}

\* The component calls renderPlugins in its render pass, where the closure's
\* mapping is the cell's.  A throw reaches the host.
RenderPlugins(props) ==
    /\ phase = "rendering"
    /\ props \in PropsOf(variant)
    /\ LET r == renderPlugins(variant, plugins, pluginData, props)
       IN  /\ lastOp' = [NoOp EXCEPT !.op = "renderPlugins",
                                     !.props = props,
                                     !.threw = r.threw,
                                     !.tdCalls = r.tdCalls,
                                     !.frags = r.frags,
                                     !.passed = r.passed]
           /\ phase' = IF r.threw THEN "failed" ELSE phase
    /\ UNCHANGED <<variant, pool, plugins, deps, prevDeps, mounted, pluginData, ext>>

\* The component calls the descriptor hook's RenderPlugins in its render pass.
RenderPluginsCalled(props) ==
    /\ phase = "rendering"
    /\ variant = "descriptor"
    /\ LET r == RenderPluginsAccessor(variant, plugins, pluginData, props)
       IN  /\ lastOp' = [NoOp EXCEPT !.op = "RenderPlugins",
                                     !.props = props,
                                     !.threw = r.threw,
                                     !.tdCalls = r.tdCalls,
                                     !.frags = r.frags,
                                     !.passed = r.passed]
           /\ phase' = IF r.threw THEN "failed" ELSE phase
    /\ UNCHANGED <<variant, pool, plugins, deps, prevDeps, mounted, pluginData, ext>>

\* The consuming view is torn down; the mapping is discarded with it.
Unmount ==
    /\ phase \in {"committed", "failed"}
    /\ phase' = "setup"
    /\ mounted' = FALSE
    /\ plugins' = <<>>
    /\ deps' = <<>>
    /\ prevDeps' = <<>>
    /\ pluginData' = <<>>
    /\ lastOp' = [NoOp EXCEPT !.op = "unmount"]
    /\ UNCHANGED <<variant, pool, ext>>

\* The state a transformData reads changes, between any two calls of the hook's
\* functions.  Only a pool with such a plugin can tell.
ExternalChange(e) ==
    /\ \E i \in 1..Len(pool) : pool[i].transformData.kind = "reads"
    /\ e # ext
    /\ ext' = e
    /\ UNCHANGED <<variant, pool, phase, plugins, deps, prevDeps, mounted, pluginData,
                   lastOp>>

Next ==
    \/ \E d \in PluginUniverse : DefinePlugin(d)
    \/ \E d \in FactoryInputs : CreatePlugin(d)
    \/ \E keep \in SUBSET (1..Len(pool)), d \in DepsSeqs : Evaluate(keep, d)
    \/ Commit
    \/ \E props \in OverrideProps : RenderPlugins(props)
    \/ \E props \in OverrideProps : RenderPluginsCalled(props)
    \/ Unmount
    \/ \E e \in ExtValues : ExternalChange(e)

Spec == Init /\ [][Next]_vars

----------------------------------------------------------------------------
(* The data hook and the descriptor hook side by side *)

\* Both hooks are given the same plugin sequences and deps, evaluation by
\* evaluation; pluginData holds the cell of each.  The session ends when either
\* hook throws.
PairEmpty == [data |-> <<>>, descriptor |-> <<>>]

PairInit ==
    /\ variant = "pair"
    /\ pool = <<>>
    /\ phase = "setup"
    /\ plugins = <<>>
    /\ deps = <<>>
    /\ prevDeps = <<>>
    /\ mounted = FALSE
    /\ pluginData = PairEmpty
    /\ ext = "0"
    /\ lastOp = NoOp

\* The effect of each hook, due for both at once: each runs its own refresh.
PairCommit ==
    /\ phase = "rendering"
    /\ mounted' = TRUE
    /\ prevDeps' = deps
    /\ IF EffectDue
       THEN LET rd == Refresh("data", plugins)
                rc == Refresh("descriptor", plugins)
                threw == rd.threw \/ rc.threw
            IN  /\ pluginData' = [data |-> setPluginData(pluginData.data, rd),
                                  descriptor |->
                                      setPluginData(pluginData.descriptor, rc)]
                /\ phase' = IF threw THEN "failed" ELSE "committed"
                /\ lastOp' = [NoOp EXCEPT !.op = "effect",
                                          !.refresh = IF threw THEN "threw" ELSE "done",
                                          !.first = ~mounted,
                                          !.threw = threw]
       ELSE /\ pluginData' = pluginData
            /\ phase' = "committed"
            /\ lastOp' = [NoOp EXCEPT !.op = "effect"]
    /\ UNCHANGED <<variant, pool, plugins, deps, ext>>

\* renderPlugins() of each hook in the same render pass, without override props.
PairRenderPlugins ==
    /\ phase = "rendering"
    /\ LET rd == renderPlugins("data", plugins, pluginData.data, JSUndefined)
           rc == renderPlugins("descriptor", plugins, pluginData.descriptor,
                               JSUndefined)
       IN  /\ lastOp' = [NoOp EXCEPT !.op = "renderPlugins",
                                     !.threw = rd.threw \/ rc.threw,
                                     !.result = [data |-> rd, descriptor |-> rc]]
           /\ phase' = IF rd.threw \/ rc.threw THEN "failed" ELSE phase
    /\ UNCHANGED <<variant, pool, plugins, deps, prevDeps, mounted, pluginData, ext>>

PairUnmount ==
    /\ phase \in {"committed", "failed"}
    /\ phase' = "setup"
    /\ mounted' = FALSE
    /\ plugins' = <<>>
    /\ deps' = <<>>
    /\ prevDeps' = <<>>
    /\ pluginData' = PairEmpty
    /\ lastOp' = [NoOp EXCEPT !.op = "unmount"]
    /\ UNCHANGED <<variant, pool, ext>>

PairNext ==
    \/ \E d \in PluginUniverse : DefinePlugin(d)
    \/ \E keep \in SUBSET (1..Len(pool)), d \in DepsSeqs : Evaluate(keep, d)
    \/ PairCommit
    \/ PairRenderPlugins
    \/ PairUnmount
    \/ \E e \in ExtValues : ExternalChange(e)

PairSpec == PairInit /\ [][PairNext]_vars

----------------------------------------------------------------------------
(* Properties *)

HasData(plugin) == IsFunction(plugin.transformData)

Rendered == lastOp.op = "renderPlugins" /\ ~lastOp.threw

Refreshed == lastOp.op = "effect" /\ lastOp.refresh = "done"

\* "ui-plugin-<index>" for the plugin at position i of a sequence
Synthesized(i) == "ui-plugin-" \o ToString(i - 1)

HasOwnName(plugin) == plugin.name # <<>> /\ plugin.name # <<"">>

\* What reading key k of the stored mapping pd gives: the entry, for a key
\* without entry that Object.prototype defines the inherited member, else
\* undefined.
Found(pd, k) ==
    IF k \in DOMAIN pd
    THEN pd[k]
    ELSE IF k = "constructor" THEN JSInherited ELSE JSUndefined

\* A step of the hook or of its caller's code, not a change of outside state.
HookStep == ext' = ext

\* C1: transformData is invoked only by the effect of an evaluation that is the
\* first or whose deps differ from the previous evaluation's, never by a call of
\* renderPlugins; and such an effect over plugins with transformData invokes it.
C1_DepsGateTransformData ==
    [][ HookStep =>
        /\ lastOp'.tdCalls # <<>> =>
              /\ lastOp'.op = "effect"
              /\ ~mounted \/ deps # prevDeps
        /\ ( /\ lastOp'.op = "effect"
             /\ ~mounted \/ deps # prevDeps
             /\ \E i \in 1..Len(plugins) : HasData(plugins[i]) )
           => lastOp'.tdCalls # <<>> ]_vars

\* C2: the effect of an evaluation runs the refresh exactly when the evaluation
\* is the first of the session or its deps differ from the previous evaluation's,
\* and nothing but a completed refresh (or the teardown) replaces the mapping.
C2_RefreshExactlyOnChange ==
    [][ HookStep =>
        /\ lastOp'.op = "effect" =>
              /\ phase = "rendering"
              /\ (lastOp'.refresh # "none") <=> (~mounted \/ deps # prevDeps)
        /\ pluginData' # pluginData =>
              \/ lastOp'.op = "effect" /\ lastOp'.refresh = "done"
              \/ lastOp'.op = "unmount" ]_vars

\* A committed evaluation with unchanged deps left a populated mapping alone.
C2_Witness ==
    /\ lastOp.op = "effect"
    /\ lastOp.refresh = "none"
    /\ deps = <<1>>
    /\ pluginData # <<>>

\* The values the plugin's own transformData can return.
OwnResults(plugin) ==
    IF plugin.transformData.kind = "reads"
    THEN {JSObject([v |-> e]) : e \in ExtValues}
    ELSE {plugin.transformData.value}

\* What a refresh can store for a plugin: its data, or the descriptor itself.
OwnEntries(plugin) ==
    IF variant = "descriptor" THEN {plugin} ELSE OwnResults(plugin)

\* C3: after every refresh each plugin with transformData has exactly one entry
\* of its own and no plugin without transformData has an entry under its identity.
C3_OneEntryPerDataPlugin ==
    Refreshed =>
        /\ \A i \in 1..Len(plugins) :
              LET ident == IF HasOwnName(plugins[i])
                           THEN plugins[i].name[1] ELSE Synthesized(i)
              IN  IF HasData(plugins[i])
                  THEN /\ ident \in DOMAIN pluginData
                       /\ pluginData[ident] \in OwnEntries(plugins[i])
                  ELSE ident \notin DOMAIN pluginData
        /\ Cardinality(DOMAIN pluginData)
              = Cardinality({i \in 1..Len(plugins) : HasData(plugins[i])})

\* C4: a refresh in which transformData throws leaves the stored mapping as it
\* was and ends with the error at the host.
C4_FailedRefreshKeepsMapping ==
    [][ lastOp'.refresh = "threw" =>
           /\ pluginData' = pluginData
           /\ lastOp'.threw
           /\ phase' = "failed" ]_vars

\* A refresh threw at its second plugin over a mapping that was populated.
C4_Witness ==
    /\ lastOp.refresh = "threw"
    /\ lastOp.tdCalls = <<0, 1>>
    /\ pluginData # <<>>
    /\ phase = "failed"

\* C5: the identity a render pass resolves for a plugin is its name when the name
\* is a non-empty string and "ui-plugin-<index>" when it is absent or empty.
C5_GetPluginName ==
    Rendered =>
        \A i \in 1..Len(lastOp.frags) :
            lastOp.frags[i].ident =
                IF HasOwnName(plugins[i]) THEN plugins[i].name[1] ELSE Synthesized(i)

\* A named plugin and, after it, a plugin with an empty name were rendered.
C5_Witness ==
    /\ Rendered
    /\ Len(lastOp.frags) = 2
    /\ plugins[1].name = <<"A">>
    /\ lastOp.frags[1].ident = "A"
    /\ plugins[2].name = <<"">>
    /\ lastOp.frags[2].ident = "ui-plugin-1"

\* C6: createUIPlugin returns a descriptor with the name, transformData and
\* render of the descriptor passed in.
C6_CreateUIPluginPassesThrough ==
    lastOp.op = "createUIPlugin" =>
        /\ lastOp.result.name = lastOp.arg.name
        /\ lastOp.result.transformData = lastOp.arg.transformData
        /\ lastOp.result.render = lastOp.arg.render

PropsOfObject(v) == IF v.kind = "object" THEN v.props ELSE <<>>

\* C7: with override props, render receives the derived data's properties and the
\* override's, the override's value on every key both have.
C7_OverrideWins ==
    (Rendered /\ lastOp.props.kind = "object") =>
        \A i \in 1..Len(lastOp.frags) :
            LET f == lastOp.frags[i]
                own == PropsOfObject(f.derived)
                over == lastOp.props.props
            IN  /\ f.el.data.kind = "object"
                /\ DOMAIN f.el.data.props = (DOMAIN own) \cup (DOMAIN over)
                /\ \A k \in DOMAIN over : f.el.data.props[k] = over[k]
                /\ \A k \in (DOMAIN own) \ (DOMAIN over) : f.el.data.props[k] = own[k]

\* Derived data {title: "Y", body: "Z"} was rendered under the override {title: "X"}.
C7_Witness ==
    /\ Rendered
    /\ lastOp.props = JSObject([title |-> "X"])
    /\ \E i \in 1..Len(lastOp.frags) :
          /\ lastOp.frags[i].derived = JSObject([title |-> "Y", body |-> "Z"])
          /\ lastOp.frags[i].el.data = JSObject([title |-> "X", body |-> "Z"])

\* C8 as claimed: a plugin without transformData is rendered with {} in every
\* render pass.
C8_NoDataGetsEmptyRecord ==
    Rendered =>
        \A i \in 1..Len(lastOp.frags) :
            ~HasData(plugins[i]) => lastOp.frags[i].el.data = EmptyRecord

\* C8 as amended: a plugin without transformData is rendered with a defined
\* value, and with {} merged with the override props when reading the mapping
\* under its identity gives nothing.
C8_NoDataGetsDefinedValue ==
    Rendered =>
        \A i \in 1..Len(lastOp.frags) :
            ~HasData(plugins[i]) =>
                /\ lastOp.frags[i].el.data.kind # "undefined"
                /\ Found(pluginData, lastOp.frags[i].ident) = JSUndefined =>
                      lastOp.frags[i].el.data = JSObject(PropsOfObject(lastOp.props))

\* After a refresh, a plugin without transformData and without an entry was
\* rendered with {}.
C8_Witness ==
    /\ Rendered
    /\ pluginData # <<>>
    /\ \E i \in 1..Len(lastOp.frags) :
          /\ ~HasData(plugins[i])
          /\ lastOp.frags[i].ident \notin DOMAIN pluginData
          /\ lastOp.frags[i].el.data = EmptyRecord

\* C9 as claimed (data and inline hooks): render receives the stored value
\* whenever the mapping has an entry for the identity, {} only when it has none.
C9_StoredValuePassedThrough ==
    (Rendered /\ variant # "descriptor") =>
        \A i \in 1..Len(lastOp.frags) :
            LET f == lastOp.frags[i]
            IN  f.el.data = IF f.ident \in DOMAIN pluginData
                            THEN pluginData[f.ident] ELSE EmptyRecord

\* C9 as amended (data and inline hooks): render receives the stored value when
\* the mapping has a truthy entry for the identity, and {} when the entry is
\* absent or falsy; for an identity without entry that Object.prototype
\* defines, it receives the inherited member.
C9_TruthyStoredValuePassedThrough ==
    (Rendered /\ variant # "descriptor") =>
        \A i \in 1..Len(lastOp.frags) :
            LET f == lastOp.frags[i]
                read == Found(pluginData, f.ident)
            IN  f.el.data = IF read.kind \in {"object", "function"}
                            THEN read ELSE EmptyRecord

\* One render pass passed a stored object through and replaced a stored 0 by {}.
C9_Witness ==
    /\ Rendered
    /\ variant # "descriptor"
    /\ \E i, j \in 1..Len(lastOp.frags) :
          /\ lastOp.frags[i].ident \in DOMAIN pluginData
          /\ pluginData[lastOp.frags[i].ident] = JSZero
          /\ lastOp.frags[i].el.data = EmptyRecord
          /\ lastOp.frags[j].ident \in DOMAIN pluginData
          /\ lastOp.frags[j].el.data = JSObject([title |-> "Y", body |-> "Z"])

\* C10: renderPlugins returns one fragment per plugin, the i-th made by the i-th
\* plugin's render.
C10_OneFragmentPerPlugin ==
    Rendered =>
        /\ Len(lastOp.frags) = Len(plugins)
        /\ \A i \in 1..Len(plugins) : lastOp.frags[i].el.render = plugins[i].render

\* Two different plugins were rendered, in their order, one of them without data.
C10_Witness ==
    /\ Rendered
    /\ Len(lastOp.frags) = 2
    /\ lastOp.frags[1].el.render = "renderC"
    /\ lastOp.frags[2].el.render = "renderA"

\* The identity of the plugin at position i of the evaluation's sequence.
Identity(i) ==
    IF HasOwnName(plugins[i]) THEN plugins[i].name[1] ELSE Synthesized(i)

\* The stored mapping is the one a refresh of the current sequence produces.
RefreshApplied ==
    /\ mounted
    /\ ~Refresh(variant, plugins).threw
    /\ pluginData = Refresh(variant, plugins).data

\* A render pass without override props, with deps = [] and the refresh of the
\* sequence applied, over plugins that all have transformData.
InitialRefreshRendered ==
    /\ Rendered
    /\ lastOp.props = JSUndefined
    /\ deps = <<>>
    /\ RefreshApplied
    /\ \A i \in 1..Len(plugins) : HasData(plugins[i])

\* C11 as claimed: with deps = [] and the refresh of the sequence applied,
\* renderPlugins() over plugins that all have transformData calls each plugin's
\* render, in sequence order, with exactly a value that plugin's own
\* transformData returns.
C11_OwnDataInOrder ==
    InitialRefreshRendered =>
        /\ Len(lastOp.frags) = Len(plugins)
        /\ \A i \in 1..Len(plugins) :
              /\ lastOp.frags[i].el.render = plugins[i].render
              /\ lastOp.frags[i].el.data \in OwnResults(plugins[i])

\* The last position of the sequence whose plugin has the identity of position i.
LastSharing(i) ==
    CHOOSE j \in 1..Len(plugins) :
        /\ Identity(j) = Identity(i)
        /\ \A k \in 1..Len(plugins) : Identity(k) = Identity(i) => k <= j

\* {} in place of a value that is not an object
OrEmpty(v) == IF v.kind = "object" THEN v ELSE EmptyRecord

\* C11 as amended: in that render pass each plugin's render is called, in
\* sequence order, with the value returned by the transformData of the last
\* plugin of the sequence that has the same identity, the plugin's own when no
\* later plugin shares it, and with {} in place of a falsy value.
C11_LastOfIdentityInOrder ==
    InitialRefreshRendered =>
        /\ Len(lastOp.frags) = Len(plugins)
        /\ \A i \in 1..Len(plugins) :
              /\ lastOp.frags[i].el.render = plugins[i].render
              /\ \E r \in OwnResults(plugins[LastSharing(i)]) :
                    lastOp.frags[i].el.data = OrEmpty(r)
              /\ LastSharing(i) = i =>
                    \E r \in OwnResults(plugins[i]) :
                        lastOp.frags[i].el.data = OrEmpty(r)

\* The plugin named "A" and the unnamed plugin after it were rendered with
\* their own data, in that order.
C11_Witness ==
    /\ InitialRefreshRendered
    /\ plugins = <<PluginA, PluginUnnamed>>
    /\ lastOp.frags[1].el = [render |-> "renderA",
                             data |-> JSObject([title |-> "Y", body |-> "Z"])]
    /\ lastOp.frags[2].el = [render |-> "renderB", data |-> JSObject([v |-> "2"])]

\* C12 as claimed: the key of each rendered fragment is the identity of its
\* plugin.
C12_KeyIsIdentity ==
    Rendered =>
        \A i \in 1..Len(lastOp.frags) : lastOp.frags[i].key = Identity(i)

\* C12 as amended: the key of each rendered fragment is "ui-plugin-<index>" for
\* the plugin's position in the sequence, whatever its name, so the keys of one
\* call are pairwise distinct.
C12_KeyIsPositional ==
    Rendered =>
        /\ \A i \in 1..Len(lastOp.frags) : lastOp.frags[i].key = Synthesized(i)
        /\ \A i, j \in 1..Len(lastOp.frags) :
              i # j => lastOp.frags[i].key # lastOp.frags[j].key

\* The plugin named "A" and an unnamed plugin after it were rendered with the
\* keys "ui-plugin-0" and "ui-plugin-1".
C12_Witness ==
    /\ Rendered
    /\ Len(lastOp.frags) = 2
    /\ plugins[1].name = <<"A">>
    /\ plugins[2].name = <<>>
    /\ lastOp.frags[1].key = "ui-plugin-0"
    /\ lastOp.frags[2].key = "ui-plugin-1"

\* The positions of the sequence whose plugins have transformData.
DataPositions == {i \in 1..Len(plugins) : HasData(plugins[i])}

\* The last position with transformData whose plugin has identity k.
LastDataOf(k) ==
    CHOOSE j \in DataPositions :
        /\ Identity(j) = k
        /\ \A m \in DataPositions : Identity(m) = k => m <= j

\* The mapping a completed refresh of the current sequence leaves: under every
\* identity of a plugin with transformData, the value (in the descriptor hook
\* the descriptor) of the last such plugin.
FreshMapping ==
    [k \in {Identity(i) : i \in DataPositions} |->
        IF variant = "descriptor"
        THEN plugins[LastDataOf(k)]
        ELSE TransformResult(plugins[LastDataOf(k)].transformData)]

\* What a render pass can derive for position i from mapping pd.
DerivableFrom(pd, i) ==
    IF variant = "descriptor"
    THEN IF Identity(i) \in DOMAIN pd
         THEN OwnResults(pd[Identity(i)])
         ELSE {JSUndefined}
    ELSE {Found(pd, Identity(i))}

C14_EmptyDepsRefreshOnce ==
    [][ (HookStep /\ phase = "rendering" /\ lastOp'.op = "effect" /\ deps = <<>>) =>
           /\ ~mounted => lastOp'.refresh # "none" /\ lastOp'.first
           /\ mounted => lastOp'.refresh = "none" /\ pluginData' = pluginData ]_vars

\* With deps = [], a later evaluation over another plugin sequence committed
\* without a refresh: the mapping is not that sequence's.
C14_Witness ==
    /\ lastOp.op = "effect"
    /\ lastOp.refresh = "none"
    /\ deps = <<>>
    /\ mounted
    /\ pluginData # <<>>
    /\ pluginData # FreshMapping

\* C15: two renderPlugins calls with the same stored mapping, the same plugin
\* sequence and the same override props call render with identical data, plugin
\* by plugin.
C15_RenderIdempotent ==
    [][ ( /\ lastOp.op = "renderPlugins"
          /\ lastOp'.op = "renderPlugins"
          /\ lastOp'.props = lastOp.props
          /\ pluginData' = pluginData
          /\ plugins' = plugins )
        => lastOp'.passed = lastOp.passed ]_vars

\* Every transformData the session has seen returns the same value at every call.
AllPure == \A i \in 1..Len(pool) : pool[i].transformData.kind # "reads"

\* C16: given the same evaluations, deps and plugin sequences, and transformData
\* functions that are pure, a renderPlugins() call of the data hook and one of
\* the descriptor hook in the same render pass call render for the same plugins
\* with the same data.
C16_DataAndDescriptorAgree ==
    (lastOp.op = "renderPlugins" /\ AllPure) =>
        /\ lastOp.result.data.threw = lastOp.result.descriptor.threw
        /\ lastOp.result.data.passed = lastOp.result.descriptor.passed

\* C17: RenderPlugins called with props p reads the mapping renderPlugins reads
\* and returns what renderPlugins(p) returns in the same state: the same
\* fragments in the same order, with the same keys and data, or the same throw.
C17_AccessorAgrees ==
    [][ (HookStep /\ lastOp'.op = "RenderPlugins") =>
            LET r == renderPlugins(variant, plugins, pluginData, lastOp'.props)
            IN  /\ lastOp'.threw = r.threw
                /\ lastOp'.frags = r.frags
                /\ lastOp'.passed = r.passed
                /\ pluginData' = pluginData ]_vars

\* RenderPlugins({title: "X"}) returned two fragments, the first with derived
\* data under the override.
C17_Witness ==
    /\ lastOp.op = "RenderPlugins"
    /\ ~lastOp.threw
    /\ lastOp.props = JSObject([title |-> "X"])
    /\ Len(lastOp.frags) = 2
    /\ lastOp.frags[1].key = "ui-plugin-0"
    /\ lastOp.frags[1].el.data = JSObject([title |-> "X", body |-> "Z"])

\* C18: a refresh that completes replaces the mapping wholesale: afterwards its
\* keys are exactly the identities of the plugins with transformData in that
\* evaluation's sequence, each entry is one the refresh made, and no other entry
\* of the previous mapping is left.
C18_RefreshReplacesWholesale ==
    [][ (HookStep /\ lastOp'.op = "effect" /\ lastOp'.refresh = "done") =>
           /\ DOMAIN pluginData' = {Identity(i) : i \in DataPositions}
           /\ \A k \in DOMAIN pluginData' :
                 pluginData'[k] \in OwnEntries(plugins[LastDataOf(k)])
           /\ \A k \in DOMAIN pluginData :
                 k \notin {Identity(i) : i \in DataPositions}
                     => k \notin DOMAIN pluginData' ]_vars

\* A later refresh over a sequence without the plugin named "A" left a mapping
\* without the entry "A" that the previous mapping had.
C18_Witness ==
    /\ Refreshed
    /\ ~lastOp.first
    /\ lastOp.dropped = {"A"}
    /\ "A" \notin DOMAIN pluginData
    /\ pluginData # <<>>

\* The render of the plugin at position i reads data.v.length.
StrictAt(i) == plugins[i].render = "renderStrict"

LacksV(data) == data.kind # "object" \/ "v" \notin DOMAIN data.props

\* C19: when a plugin's render throws during a render call, the call throws to
\* its caller, returns no fragments, invokes the render and the transformData of
\* no later plugin, and leaves the stored mapping as it was.
C19_RenderThrowAborts ==
    [][ ( /\ HookStep
          /\ lastOp'.op \in {"renderPlugins", "RenderPlugins"} )
        => \A n \in 1..Len(lastOp'.passed) :
              (StrictAt(n) /\ LacksV(lastOp'.passed[n])) =>
                  /\ lastOp'.threw
                  /\ phase' = "failed"
                  /\ lastOp'.frags = <<>>
                  /\ Len(lastOp'.passed) = n
                  /\ \A c \in 1..Len(lastOp'.tdCalls) : lastOp'.tdCalls[c] < n
                  /\ pluginData' = pluginData ]_vars

\* The render of the first of two plugins threw over a populated mapping; the
\* second plugin's render was not invoked.
C19_Witness ==
    /\ lastOp.op = "renderPlugins"
    /\ lastOp.threw
    /\ Len(plugins) = 2
    /\ StrictAt(1)
    /\ Len(lastOp.passed) = 1
    /\ LacksV(lastOp.passed[1])
    /\ pluginData # <<>>
    /\ phase = "failed"

\* C20 as claimed: in every render pass the derived data a plugin's render is
\* given, before overrides, is the empty record or a value of that plugin's own
\* transformData.
C20_OnlyOwnData ==
    Rendered =>
        \A i \in 1..Len(lastOp.frags) :
            \/ lastOp.frags[i].derived.kind \in {"undefined", "number0"}
            \/ /\ HasData(plugins[i])
               /\ lastOp.frags[i].derived \in OwnResults(plugins[i])

\* The identities the plugin p takes in a sequence: its name, or a positional
\* identity when it has none.
IdentitiesOf(p) ==
    IF HasOwnName(p) THEN {p.name[1]} ELSE {Synthesized(k) : k \in 1..MaxPlugins}

\* C20 as amended: the derived data a plugin's render is given, before
\* overrides, is absent (the empty record is passed) or is what reading the
\* stored mapping under the plugin's identity gives: a value produced by the
\* transformData of a plugin of this session that had the same identity when a
\* refresh ran, or, for an identity without entry that Object.prototype
\* defines, the inherited member.  It is the plugin's own whenever the mapping
\* is the refresh of the current sequence and the plugin is the last one in it
\* with transformData and that identity.
C20_DataOfSameIdentity ==
    Rendered =>
        \A i \in 1..Len(lastOp.frags) :
            LET d == lastOp.frags[i].derived
            IN  /\ d \in DerivableFrom(pluginData, i)
                /\ d # JSUndefined =>
                      \/ /\ d = JSInherited
                         /\ Identity(i) \notin DOMAIN pluginData
                      \/ \E j \in 1..Len(pool) :
                            /\ HasData(pool[j])
                            /\ d \in OwnResults(pool[j])
                            /\ Identity(i) \in IdentitiesOf(pool[j])
                /\ ( /\ pluginData = FreshMapping
                     /\ HasData(plugins[i])
                     /\ LastDataOf(Identity(i)) = i )
                   => d \in OwnResults(plugins[i])

\* A plugin was rendered with data that another plugin's transformData produced.
C20_Witness ==
    /\ Rendered
    /\ \E i \in 1..Len(lastOp.frags) :
          /\ lastOp.frags[i].derived.kind = "object"
          /\ lastOp.frags[i].derived \notin OwnResults(plugins[i])

\* C21: the plugins at two different positions of a sequence never have the same
\* identity, in a render pass or in a refresh, so a refresh leaves one entry
\* for every plugin with transformData.
C21_IdentitiesDistinct ==
    /\ Rendered =>
          \A i, j \in 1..Len(lastOp.frags) :
              i # j => lastOp.frags[i].ident # lastOp.frags[j].ident
    /\ Refreshed =>
          Cardinality(DOMAIN pluginData) = Cardinality(DataPositions)

\* C22: when an evaluation's deps are element-wise equal to the previous
\* evaluation's, whatever plugin sequence it was given, its effect runs no
\* refresh and leaves the stored mapping as the earlier refresh computed it, and
\* the render calls of that evaluation read the identities of its sequence in
\* that mapping.
C22_EqualDepsKeepOlderMapping ==
    [][ (HookStep /\ phase = "rendering" /\ mounted
           /\ Len(deps) = Len(prevDeps)
           /\ \A k \in 1..Len(deps) : deps[k] = prevDeps[k]) =>
          /\ pluginData' = pluginData
          /\ lastOp'.op = "effect" => lastOp'.refresh = "none" /\ lastOp'.tdCalls = <<>>
          /\ (lastOp'.op \in {"renderPlugins", "RenderPlugins"} /\ ~lastOp'.threw) =>
                \A i \in 1..Len(lastOp'.frags) :
                    /\ lastOp'.frags[i].ident = Identity(i)
                    /\ lastOp'.frags[i].derived \in DerivableFrom(pluginData, i) ]_vars

\* With deps = [1] in both evaluations the second one was given another plugin
\* sequence, and its effect left the mapping of the first: the mapping has
\* other keys than a refresh of the current sequence gives.
C22_Witness ==
    /\ lastOp.op = "effect"
    /\ lastOp.refresh = "none"
    /\ deps = <<1>>
    /\ prevDeps = <<1>>
    /\ plugins # <<>>
    /\ pluginData # <<>>
    /\ DOMAIN pluginData # DOMAIN FreshMapping

\* A renderPlugins or RenderPlugins call of a session's first render pass.
FirstPassRender ==
    /\ lastOp.op \in {"renderPlugins", "RenderPlugins"}
    /\ ~mounted

\* C23: a render call of a session's first render pass, made before any refresh
\* was applied, finds the mapping empty, calls no transformData and invokes
\* every render it reaches with {} merged with the override props; only a
\* render that throws on that argument ends the call early.
C23_FirstPassSeesEmptyMapping ==
    FirstPassRender =>
        /\ pluginData = <<>>
        /\ lastOp.tdCalls = <<>>
        /\ \A k \in 1..Len(lastOp.passed) :
              lastOp.passed[k] = JSObject(PropsOfObject(lastOp.props))
        /\ ~lastOp.threw => Len(lastOp.passed) = Len(plugins)
        /\ lastOp.threw =>
              /\ Len(lastOp.passed) >= 1
              /\ RenderThrows(plugins[Len(lastOp.passed)],
                              lastOp.passed[Len(lastOp.passed)])

\* getPluginName gave no plugin of the last render call the empty string.
NoEmptyIdentity ==
    \A i \in 1..Len(lastOp.frags) : lastOp.frags[i].ident # ""

\* Every value the descriptor hook's mapping holds has a callable transformData.
StoredAreCallable ==
    variant = "descriptor" =>
        \A k \in DOMAIN pluginData : IsFunction(pluginData[k].transformData)

\* C24: in the descriptor hook getPluginName never gives the empty string, every
\* stored value is a descriptor with a callable transformData, and so a render
\* call ends in a throw only where a render threw or a stored transformData
\* threw, never because pluginObj?.transformData() called a non-function.
C24_NeverCallsNonFunction ==
    /\ NoEmptyIdentity
    /\ StoredAreCallable
    /\ (variant = "descriptor" /\ lastOp.threw
          /\ lastOp.op \in {"renderPlugins", "RenderPlugins"}) =>
          LET n == Len(lastOp.passed)
          IN  \/ n >= 1 /\ RenderThrows(plugins[n], lastOp.passed[n])
              \/ /\ n < Len(plugins)
                 /\ Identity(n + 1) \in DOMAIN pluginData
                 /\ pluginData[Identity(n + 1)].transformData.kind = "throws"

====
